---- MODULE Spec2Model ----
(***************************************************************************)
(* A model of handlers/tbank.py: the TBankManager client.                  *)
(*                                                                         *)
(* The client caches the processor credentials (is_initialized,            *)
(* terminal_key, password), signs requests in _post, and offers            *)
(* create_payment and check_payment.  Coroutines run on one event loop:    *)
(* a task gives up control only at an await that really suspends           *)
(* (db.get_tbank_settings(), the HTTP round trip, the aiosqlite read of    *)
(* pay_notify, bot.send_message), so every action below is the code that   *)
(* runs between two such suspension points.                                *)
(*                                                                         *)
(* The collaborators (settings store, processor, notifier) are outside     *)
(* the program: what they answer is chosen with \E when the awaiting       *)
(* task resumes.                                                           *)
(***************************************************************************)
EXTENDS Integers, Sequences, FiniteSets, TLC

VARIABLES
    is_initialized,   \* TBankManager.is_initialized
    terminal_key,     \* TBankManager.terminal_key
    password,         \* TBankManager.password
    keyInit,          \* history: number of the init_tbank() run that set terminal_key
    pwdInit,          \* history: number of the init_tbank() run that set password
    nInits,           \* history: init_tbank() runs resumed so far
    task              \* per task: the running coroutine, its locals and its history

vars == <<is_initialized, terminal_key, password, keyInit, pwdInit, nInits, task>>

-----------------------------------------------------------------------------
(* Bounds *)

\* init_tbank() runs that may resume in one behaviour (caps the history numbering)
MaxInits == 3

\* the concurrently running tasks
Tasks == {"t1", "t2"}

-----------------------------------------------------------------------------
(* Python values *)

\* Python's None, where a str is expected
NoneVal == "<None>"

\* `not x` for a str-or-None x
Falsy(x) == x \in {NoneVal, ""}

\* JSON true / false as they arrive in a parsed response
JTrue == "<True>"
JFalse == "<False>"

\* truthiness of a parsed JSON scalar (None, False and "" are falsy)
Truthy(x) == x \notin {NoneVal, JFalse, ""}

\* values a payload dict holds
VStr(s) == [ty |-> "str", n |-> 0, s |-> s, d |-> << >>]
VInt(n) == [ty |-> "int", n |-> n, s |-> "", d |-> << >>]
VNone == [ty |-> "none", n |-> 0, s |-> "", d |-> << >>]
VDict(d) == [ty |-> "dict", n |-> 0, s |-> "", d |-> d]

\* a str-or-None attribute as a payload value
Py(x) == IF x = NoneVal THEN VNone ELSE VStr(x)

Digits == <<"0", "1", "2", "3", "4", "5", "6", "7", "8", "9">>

RECURSIVE IntStr(_)
\* str(n) for an int n >= 0
IntStr(n) == IF n < 10 THEN Digits[n + 1] ELSE IntStr(n \div 10) \o Digits[(n % 10) + 1]

\* repr() of a str-or-None inside a dict
Repr(x) == IF x = NoneVal THEN "None" ELSE "'" \o x \o "'"

RECURSIVE DictItems(_)
\* the items of str(dict), in insertion order
DictItems(d) ==
    IF d = << >> THEN ""
    ELSE Repr(d[1][1]) \o ": " \o Repr(d[1][2])
         \o (IF Len(d) > 1 THEN ", " ELSE "") \o DictItems(Tail(d))

\* str(v), as the token's join applies it to every value
Str(v) ==
    CASE v.ty = "str" -> v.s
      [] v.ty = "int" -> IntStr(v.n)
      [] v.ty = "none" -> "None"
      [] v.ty = "dict" -> "{" \o DictItems(v.d) \o "}"

\* dict.get(key) on a dict of scalars
Get(dict, key) == IF key \in DOMAIN dict THEN dict[key] ELSE NoneVal

\* dict[key] = value
Put(dict, key, value) == [k \in DOMAIN dict \cup {key} |-> IF k = key THEN value ELSE dict[k]]

-----------------------------------------------------------------------------
(* What the collaborators can answer *)

\* db.get_tbank_settings(): it raises, returns None, returns a row too short to
\* index, or returns a row whose fields 2 and 3 are the stored credentials
\* (two configured rows with nothing in common, and a row for each way one
\* field can be missing)
StoredRows == {<<"tk1", "pw1">>, <<"tk2", "pw2">>,
               <<NoneVal, "pw1">>, <<"", "pw1">>, <<"tk1", NoneVal>>, <<"tk1", "">>}
SettingsReads ==
    {[kind |-> k, key |-> NoneVal, pwd |-> NoneVal] : k \in {"raise", "norow", "short"}}
    \cup {[kind |-> "row", key |-> r[1], pwd |-> r[2]] : r \in StoredRows}

\* the nested DATA object of a response
NoData == [present |-> FALSE, map |-> << >>]
DataMaps == {NoData, [present |-> TRUE, map |-> [k \in {"tariff_name"} |-> "vip"]]}

\* a field of a JSON response and the values the model lets it take
FieldValues(k) ==
    CASE k = "Success" -> {JTrue, JFalse}
      [] k = "PaymentId" -> {"pid1"}
      [] k = "PaymentURL" -> {"https://pay/x"}
      [] k = "Status" -> {"CONFIRMED", "NEW", "confirmed"}
      [] k = "OrderId" -> {"o1"}

AllFieldValues == {JTrue, JFalse, "pid1", "https://pay/x", "CONFIRMED", "NEW", "confirmed", "o1"}

\* the JSON objects over some of the fields
Bodies(fields) ==
    UNION {{b \in [D -> AllFieldValues] : \A k \in D : b[k] \in FieldValues(k)} :
           D \in SUBSET fields}

\* what `await self._post(...)` hands its caller: a parsed object, or no value
NoResponse == [kind |-> "none", body |-> << >>, data |-> NoData]
\* the round trip fails: a network error, or response.json() cannot parse
HttpRaises == [kind |-> "raise", body |-> << >>, data |-> NoData]
\* the body is JSON but no object, so result.get is an AttributeError
HttpNonMap == [kind |-> "nonmap", body |-> << >>, data |-> NoData]

InitResponses ==
    {[kind |-> "map", body |-> b, data |-> NoData] :
        b \in Bodies({"Success", "PaymentId", "PaymentURL"})}

StateResponses ==
    {[kind |-> "map", body |-> b, data |-> d] :
        b \in Bodies({"Status", "OrderId"}), d \in DataMaps}

HttpOutcomes(op) ==
    {HttpRaises, HttpNonMap} \cup (IF op = "create" THEN InitResponses ELSE StateResponses)

\* `if result`: None and the empty dict are falsy
ResultTruthy(result) ==
    result.kind = "map" /\ (DOMAIN result.body # {} \/ result.data.present)

\* the aiosqlite read of bot_settings.pay_notify: it raises, finds no row,
\* or finds a row whose column is NULL or an integer
ChatIds == {0, 7}
NotifyReads ==
    {[kind |-> k, val |-> 0] : k \in {"raise", "norow", "null"}}
    \cup {[kind |-> "int", val |-> v] : v \in ChatIds}
NoNotify == [kind |-> "unread", val |-> 0]


-----------------------------------------------------------------------------
(* Request signing: _post, lines 41-54 *)

\* every key a request dict can hold, in the order sorted() puts str keys
\* (code point order: "DATA" < "Description" because "A" < "e")
KeyOrder == <<"Amount", "CustomerKey", "DATA", "Description", "FailURL",
              "NotificationURL", "OrderId", "Password", "PaymentId", "SuccessURL",
              "TerminalKey", "Token">>

\* the keys of sorted(payload.items())
SortedKeys(payload) ==
    LET Has(k) == k \in DOMAIN payload IN SelectSeq(KeyOrder, Has)

RECURSIVE JoinValues(_, _)
\* "".join(str(v) for k, v in sorted_items)
JoinValues(keys, payload) ==
    IF keys = << >> THEN ""
    ELSE Str(payload[Head(keys)]) \o JoinValues(Tail(keys), payload)

\* hashlib.sha256(s.encode()).hexdigest(): the digest is kept symbolic, one
\* digest per input string
Sha256Hex(s) == "sha256(" \o s \o ")"

\* _generate_token(payload): writes Password into the dict it is GIVEN and
\* hashes the values in key order; the dict after the call is part of the result
generate_token(payload, pwd) ==
    LET signed == Put(payload, "Password", Py(pwd))
    IN [payload |-> signed, token |-> Sha256Hex(JoinValues(SortedKeys(signed), signed))]

\* the mutant: _generate_token(data) without .copy(), so Password lands in data
SignedBody_NoCopy(data, key, pwd) ==
    LET withKey == Put(data, "TerminalKey", Py(key))
        gen == generate_token(withKey, pwd)
    IN Put(gen.payload, "Token", VStr(gen.token))

\* lines 42-54: data["TerminalKey"] = ...; data["Token"] = _generate_token(data.copy())
SignedBody(data, key, pwd) ==
    LET withKey == Put(data, "TerminalKey", Py(key))
        copy == withKey
        gen == generate_token(copy, pwd)
    IN Put(withKey, "Token", VStr(gen.token))

-----------------------------------------------------------------------------
(* The payloads the two operations build *)

\* int(amount * 100) for an amount given in whole major units (the rounding
\* of a float with a fractional part is outside this model)
MinorUnits(amount) == amount * 100

\* lines 74-88
CreatePayload(order_id, amount, description, user_id, tariff_name, username) ==
    LET meta == <<
            <<"telegram_id", user_id>>,
            <<"username", IF Falsy(username) THEN "unknown" ELSE username>>,
            <<"tariff_name", IF Falsy(tariff_name) THEN "none" ELSE tariff_name>> >>
        fields == {"OrderId", "Amount", "Description", "CustomerKey", "DATA",
                   "SuccessURL", "FailURL", "NotificationURL"}
    IN [k \in fields |->
          CASE k = "OrderId" -> VStr(order_id)
            [] k = "Amount" -> VInt(MinorUnits(amount))
            [] k = "Description" -> VStr(description)
            [] k = "CustomerKey" -> VStr(Str(Py(user_id)))
            [] k = "DATA" -> VDict(meta)
            [] k = "SuccessURL" -> VStr("https://t.me/BURYAT_VPN_BOT")
            [] k = "FailURL" -> VStr("https://t.me/BURYAT_VPN_BOT")
            [] k = "NotificationURL" -> VStr("https://your-server.com/tbank/callback")]

\* line 105
CheckPayload(payment_id) == [k \in {"PaymentId"} |-> VStr(payment_id)]

\* the arguments the callers pass
OrderIds == {"o1"}
Amounts == {10}
Descriptions == {"X"}
UserIds == {NoneVal, "42"}
TariffNames == {NoneVal, "vip"}
Usernames == {NoneVal}
PaymentIds == {"pid1"}

-----------------------------------------------------------------------------
(* Return values and the handlers' except clauses *)

NoRet == [kind |-> "none", b |-> FALSE, id |-> NoneVal, url |-> NoneVal, caught |-> FALSE]
RetBool(b) == [NoRet EXCEPT !.kind = "bool", !.b = b]
RetPair(id, url) == [NoRet EXCEPT !.kind = "pair", !.id = id, !.url = url]

\* the mutant: an exception that no except clause stops leaves the coroutine
Escapes == [NoRet EXCEPT !.kind = "raises"]

\* lines 98-100: except Exception -> log, return None, None
create_payment_except == [RetPair(NoneVal, NoneVal) EXCEPT !.caught = TRUE]

\* lines 143-145: except Exception -> log, return False
check_payment_except == [RetBool(FALSE) EXCEPT !.caught = TRUE]

-----------------------------------------------------------------------------
(* init_tbank, lines 18-34 *)

\* line 22, negated: settings and settings[2] and settings[3]
SettingsConfigured(settings) ==
    settings.kind = "row" /\ ~Falsy(settings.key) /\ ~Falsy(settings.pwd)

\* the cached credentials with their history
Cache == [is_initialized |-> is_initialized, terminal_key |-> terminal_key,
          password |-> password, keyInit |-> keyInit, pwdInit |-> pwdInit]

\* the mutant: a failed init_tbank() resets the client
init_tbank_Resets(settings, cache, id) ==
    IF settings.kind \in {"raise", "short"} \/ ~SettingsConfigured(settings)
    THEN [ok |-> FALSE,
          cache |-> [is_initialized |-> FALSE, terminal_key |-> NoneVal,
                     password |-> NoneVal, keyInit |-> 0, pwdInit |-> 0]]
    ELSE [ok |-> TRUE,
          cache |-> [is_initialized |-> TRUE, terminal_key |-> settings.key,
                     password |-> settings.pwd, keyInit |-> id, pwdInit |-> id]]

\* the mutant: terminal_key is assigned before the password is validated
init_tbank_KeyFirst(settings, cache, id) ==
    IF settings.kind \in {"raise", "short", "norow"} \/ Falsy(settings.key)
    THEN [ok |-> FALSE, cache |-> cache]
    ELSE IF Falsy(settings.pwd)
    THEN [ok |-> FALSE,
          cache |-> [cache EXCEPT !.terminal_key = settings.key, !.keyInit = id]]
    ELSE [ok |-> TRUE,
          cache |-> [is_initialized |-> TRUE, terminal_key |-> settings.key,
                     password |-> settings.pwd, keyInit |-> id, pwdInit |-> id]]

\* lines 21-34, run when db.get_tbank_settings() has answered `settings`:
\* the value returned and the cache it leaves (id numbers this run)
init_tbank(settings, cache, id) ==
    IF settings.kind \in {"raise", "short"}
    THEN [ok |-> FALSE, cache |-> cache]                 \* lines 32-34
    ELSE IF ~SettingsConfigured(settings)
    THEN [ok |-> FALSE, cache |-> cache]                 \* lines 22-24
    ELSE [ok |-> TRUE,                                   \* lines 26-30
          cache |-> [is_initialized |-> TRUE, terminal_key |-> settings.key,
                     password |-> settings.pwd, keyInit |-> id, pwdInit |-> id]]

-----------------------------------------------------------------------------
(* The tasks *)

NoSettings == [kind |-> "unread", key |-> NoneVal, pwd |-> NoneVal]
NoSnapshot == [is_initialized |-> FALSE, terminal_key |-> NoneVal, password |-> NoneVal]
Snapshot(cache) == [is_initialized |-> cache.is_initialized,
                    terminal_key |-> cache.terminal_key, password |-> cache.password]

NoMessage == [user |-> NoneVal, tariff |-> NoneVal]

IdleTask ==
    [op |-> "none",            \* the coroutine: init, create, check
     pc |-> "idle",            \* idle, init_read, http, notify_read, send, done
     bot |-> FALSE,            \* check_payment: a bot was passed
     data |-> << >>,           \* the dict the operation hands to _post
     req |-> << >>,            \* the JSON body handed to session.post
     posts |-> 0,              \* history: HTTP POSTs issued in this call
     keyUsed |-> NoneVal,      \* history: the terminal key the request carries
     pwdUsed |-> NoneVal,      \* history: the password its Token was computed from
     keyTag |-> 0,             \* history: the init_tbank() run that cached keyUsed
     pwdTag |-> 0,             \* history: the init_tbank() run that cached pwdUsed
     settings |-> NoSettings,  \* history: what this call's init_tbank() read
     initOk |-> FALSE,         \* history: what this call's init_tbank() returned
     before |-> NoSnapshot,    \* history: the cache when that init_tbank() resumed
     after |-> NoSnapshot,     \* history: the cache when it returned
     result |-> NoResponse,    \* what _post returned, or how the round trip ended
     notify |-> NoNotify,      \* notify_settings
     message |-> NoMessage,    \* message_text: the values it embeds
     sendRes |-> "none",       \* how the try block of lines 127-135 ended
     notified |-> 0,           \* history: bot.send_message calls in this call
     ret |-> NoRet]            \* the value returned

\* the mutant: _post goes on whatever init_tbank() returned
PostProceeds_Always(initialized, initOk) == TRUE

\* line 38, negated: the request is built unless the client is uninitialised
\* and init_tbank() returned False
PostProceeds(initialized, initOk) == initialized \/ initOk

\* lines 41-57: sign `rec.data` with the cache as it is now, hand the body to
\* session.post and suspend until the response arrives
Send(rec, cache) ==
    [rec EXCEPT !.pc = "http",
                !.req = SignedBody(rec.data, cache.terminal_key, cache.password),
                !.posts = rec.posts + 1,
                !.keyUsed = cache.terminal_key,
                !.pwdUsed = cache.password,
                !.keyTag = cache.keyInit,
                !.pwdTag = cache.pwdInit]

Done(rec, ret) == [rec EXCEPT !.pc = "done", !.ret = ret]

\* the mutant: the status is compared without regard to case
IsConfirmed_AnyCase(result) ==
    ResultTruthy(result) /\ Get(result.body, "Status") \in {"CONFIRMED", "confirmed"}

\* line 108
IsConfirmed(result) ==
    ResultTruthy(result) /\ Get(result.body, "Status") = "CONFIRMED"

\* lines 91-96: what create_payment returns for the value _post returned
create_payment_result(result) ==
    IF ResultTruthy(result) /\ Truthy(Get(result.body, "Success"))
    THEN RetPair(Get(result.body, "PaymentId"), Get(result.body, "PaymentURL"))
    ELSE RetPair(NoneVal, NoneVal)

\* lines 139-141: the else branch; result.get on None is an AttributeError
check_payment_else(result) ==
    IF result.kind = "none" THEN check_payment_except ELSE RetBool(FALSE)

\* _post has returned or raised: its locals are gone (the history of the call
\* keeps what _post returned and the number of POSTs)
LeavePost(rec, result) ==
    [rec EXCEPT !.result = result, !.data = << >>, !.req = << >>,
                !.keyUsed = NoneVal, !.pwdUsed = NoneVal, !.keyTag = 0, !.pwdTag = 0]

\* the history of an init_tbank() that _post awaited ends when the response
\* to the request it allowed arrives
ForgetInit(rec) ==
    [rec EXCEPT !.settings = NoSettings, !.initOk = FALSE,
                !.before = NoSnapshot, !.after = NoSnapshot]

\* the caller's code after `await self._post(...)` returned `result` without
\* raising: create_payment returns, check_payment returns or goes on to read
\* pay_notify
AfterPost(rec, result) ==
    LET r == LeavePost(rec, result)
    IN CASE rec.op = "create" -> Done(r, create_payment_result(result))
         [] rec.op = "check" ->
              IF IsConfirmed(result)
              THEN [r EXCEPT !.pc = "notify_read"]
              ELSE Done(r, check_payment_else(result))

\* the caller's except clause, for an exception raised inside _post
PostRaised(rec, outcome) ==
    LET r == LeavePost(rec, outcome)
    IN CASE rec.op = "create" -> Done(r, create_payment_except)
         [] rec.op = "check" -> Done(r, check_payment_except)

\* line 38 on entry to _post: an initialised client signs and sends at once,
\* an uninitialised one awaits init_tbank()
EnterPost(rec) ==
    IF is_initialized THEN Send(rec, Cache) ELSE [rec EXCEPT !.pc = "init_read"]

-----------------------------------------------------------------------------
(* check_payment after CONFIRMED, lines 109-137 *)

\* line 117: notify_settings and notify_settings[0] != 0
\* (a NULL column reads as None, and None != 0 is True)
NotifyEnabled(notify) ==
    notify.kind \in {"null", "int"} /\ (notify.kind = "int" => notify.val # 0)

\* lines 118-125: the values message_text embeds (the timestamp left out)
MessageText(result) ==
    [user |-> Str(Py(Get(result.body, "OrderId"))),
     tariff |-> IF result.data.present /\ "tariff_name" \in DOMAIN result.data.map
                THEN result.data.map["tariff_name"] ELSE "N/A"]

\* how get_admin_keyboard() can end
KeyboardOutcomes == {"ok", "raise"}

\* the mutant: the inner except clause is missing, so a failed delivery
\* reaches the outer one
after_send_Uncaught(outcome) ==
    IF outcome = "ok" THEN RetBool(TRUE) ELSE check_payment_except

\* lines 127-137: the try around bot.send_message ended with `outcome`
\* (ok, or an exception that lines 134-135 log); then return True
after_send(outcome) == RetBool(TRUE)

\* lines 111-133, run when the pay_notify read has answered `notify`;
\* `keyboard` is how get_admin_keyboard() ends
AfterNotifyRead(rec, notify, keyboard) ==
    LET r == [rec EXCEPT !.notify = notify]
        m == [r EXCEPT !.message = MessageText(rec.result)]
    IN IF notify.kind = "raise" THEN Done(r, check_payment_except)
       ELSE IF ~NotifyEnabled(notify) THEN Done(r, RetBool(TRUE))
       ELSE IF ~rec.bot               \* None.send_message: AttributeError
            THEN Done([m EXCEPT !.sendRes = "no_bot"], after_send("raise"))
       ELSE IF keyboard = "raise"     \* the argument raises before the call
            THEN Done([m EXCEPT !.sendRes = "keyboard_raises"], after_send("raise"))
       ELSE [m EXCEPT !.pc = "send", !.notified = rec.notified + 1]

-----------------------------------------------------------------------------
(* Actions *)

SetCache(cache) ==
    /\ is_initialized' = cache.is_initialized
    /\ terminal_key' = cache.terminal_key
    /\ password' = cache.password
    /\ keyInit' = cache.keyInit
    /\ pwdInit' = cache.pwdInit

CacheUnchanged == UNCHANGED <<is_initialized, terminal_key, password, keyInit, pwdInit, nInits>>

\* a caller awaits init_tbank() itself: line 21 suspends on the store
Call_init_tbank(t) ==
    /\ task[t].pc = "idle"
    /\ task' = [task EXCEPT ![t] = [IdleTask EXCEPT !.op = "init", !.pc = "init_read"]]
    /\ CacheUnchanged

\* create_payment up to its first suspension: lines 73-90, then _post
Call_create_payment(t) ==
    /\ task[t].pc = "idle"
    /\ \E order_id \in OrderIds, amount \in Amounts, description \in Descriptions,
          user_id \in UserIds, tariff_name \in TariffNames, username \in Usernames :
          task' = [task EXCEPT ![t] =
              EnterPost([IdleTask EXCEPT
                  !.op = "create",
                  !.data = CreatePayload(order_id, amount, description,
                                         user_id, tariff_name, username)])]
    /\ CacheUnchanged

\* check_payment up to its first suspension: lines 104-106, then _post
Call_check_payment(t) ==
    /\ task[t].pc = "idle"
    /\ \E payment_id \in PaymentIds, bot \in BOOLEAN :
          task' = [task EXCEPT ![t] =
              EnterPost([IdleTask EXCEPT
                  !.op = "check", !.bot = bot, !.data = CheckPayload(payment_id)])]
    /\ CacheUnchanged

\* db.get_tbank_settings() answers: init_tbank runs to its return, and a
\* _post that awaited it goes on (lines 38-57) in the same step
SettingsRead(t) ==
    /\ task[t].pc = "init_read"
    /\ nInits < MaxInits
    /\ \E settings \in SettingsReads :
          LET rec == task[t]
              r == init_tbank(settings, Cache, nInits + 1)
              h == [rec EXCEPT !.settings = settings, !.initOk = r.ok,
                               !.before = Snapshot(Cache), !.after = Snapshot(r.cache)]
          IN /\ SetCache(r.cache)
             /\ nInits' = nInits + 1
             /\ task' = [task EXCEPT ![t] =
                   IF rec.op = "init" THEN Done(h, RetBool(r.ok))
                   ELSE IF PostProceeds(FALSE, r.ok) THEN Send(h, r.cache)
                   ELSE AfterPost(h, NoResponse)]

\* the HTTP round trip ends: lines 58-61, then the caller's code
HttpResponse(t) ==
    /\ task[t].pc = "http"
    /\ \E outcome \in HttpOutcomes(task[t].op) :
          task' = [task EXCEPT ![t] =
              IF outcome.kind \in {"raise", "nonmap"}
              THEN PostRaised(ForgetInit(task[t]), outcome)
              ELSE AfterPost(ForgetInit(task[t]), outcome)]
    /\ CacheUnchanged

\* the aiosqlite read of pay_notify ends: lines 111-137
NotifyRead(t) ==
    /\ task[t].pc = "notify_read"
    /\ \E notify \in NotifyReads, keyboard \in KeyboardOutcomes :
          task' = [task EXCEPT ![t] = AfterNotifyRead(task[t], notify, keyboard)]
    /\ CacheUnchanged

\* bot.send_message ends: lines 134-137
SendDone(t) ==
    /\ task[t].pc = "send"
    /\ \E outcome \in {"ok", "raise"} :
          task' = [task EXCEPT ![t] =
              Done([task[t] EXCEPT !.sendRes = outcome], after_send(outcome))]
    /\ CacheUnchanged

\* the caller takes the returned value; the task may run another coroutine
Return(t) ==
    /\ task[t].pc = "done"
    /\ task' = [task EXCEPT ![t] = IdleTask]
    /\ CacheUnchanged

Init ==
    /\ is_initialized = FALSE          \* lines 12-16
    /\ terminal_key = NoneVal
    /\ password = NoneVal
    /\ keyInit = 0
    /\ pwdInit = 0
    /\ nInits = 0
    /\ task = [t \in Tasks |-> IdleTask]

Next ==
    \E t \in Tasks :
        \/ Call_init_tbank(t)
        \/ Call_create_payment(t)
        \/ Call_check_payment(t)
        \/ SettingsRead(t)
        \/ HttpResponse(t)
        \/ NotifyRead(t)
        \/ SendDone(t)
        \/ Return(t)

Spec == Init /\ [][Next]_vars

-----------------------------------------------------------------------------
(* Vocabulary of the properties *)

\* this call ran init_tbank() and it returned False
InitFailed(rec) == rec.settings.kind # "unread" /\ ~rec.initOk

\* ... because the store has no row or a credential field is empty or None
InitUnconfigured(rec) == rec.settings.kind \in {"norow", "row"} /\ ~rec.initOk

\* a GetState response arrived and says CONFIRMED
Confirmed(rec) ==
    /\ rec.result.kind = "map"
    /\ "Status" \in DOMAIN rec.result.body
    /\ rec.result.body["Status"] = "CONFIRMED"

Returned(rec, op) == rec.op = op /\ rec.pc = "done"
ReturnedBool(rec, b) == rec.ret.kind = "bool" /\ rec.ret.b = b
ReturnedNothing(rec) ==
    rec.ret.kind = "pair" /\ rec.ret.id = NoneVal /\ rec.ret.url = NoneVal

-----------------------------------------------------------------------------
(* Properties *)

\* C1: a create_payment or check_payment call whose init_tbank() failed (no
\* row, an empty credential, or the read raised) has returned (None, None),
\* respectively False, and issued no HTTP POST.
C1_FailedInitSendsNothing ==
    \A t \in Tasks :
        LET rec == task[t]
        IN (rec.op \in {"create", "check"} /\ InitFailed(rec)) =>
              /\ rec.pc = "done"
              /\ rec.posts = 0
              /\ rec.req = << >>
              /\ rec.op = "create" => ReturnedNothing(rec)
              /\ rec.op = "check" => ReturnedBool(rec, FALSE)

C1_Witness ==
    /\ Returned(task["t1"], "check") /\ InitFailed(task["t1"])
    /\ task["t1"].settings.kind = "row" /\ task["t1"].settings.pwd = ""
    /\ Returned(task["t2"], "create") /\ InitFailed(task["t2"])
    /\ task["t2"].settings.kind = "raise"

\* C2: no exception leaves create_payment or check_payment: whatever the
\* store, the processor and the notifier do, a finished create_payment has
\* returned a pair and a finished check_payment a boolean, and a round trip
\* that raised makes check_payment return False.
C2_NothingEscapes ==
    \A t \in Tasks :
        LET rec == task[t]
        IN /\ rec.ret.kind # "raises"
           /\ Returned(rec, "create") => rec.ret.kind = "pair"
           /\ Returned(rec, "check") => rec.ret.kind = "bool"
           /\ (Returned(rec, "check") /\ rec.result.kind \in {"raise", "nonmap"})
                 => ReturnedBool(rec, FALSE)
           /\ (Returned(rec, "create") /\ rec.result.kind \in {"raise", "nonmap"})
                 => ReturnedNothing(rec)

C2_Witness ==
    /\ Returned(task["t1"], "check") /\ task["t1"].result.kind = "raise"
    /\ task["t1"].posts = 1 /\ task["t1"].ret.caught
    /\ Returned(task["t2"], "check") /\ task["t2"].notify.kind = "raise"

\* C3: check_payment returns True only if a GetState response arrived whose
\* Status is exactly "CONFIRMED".
C3_TrueOnlyIfConfirmed ==
    \A t \in Tasks :
        (Returned(task[t], "check") /\ ReturnedBool(task[t], TRUE)) => Confirmed(task[t])

C3_Witness ==
    /\ Returned(task["t1"], "check") /\ ReturnedBool(task["t1"], TRUE)
    /\ Returned(task["t2"], "check") /\ ReturnedBool(task["t2"], FALSE)
    /\ task["t2"].result.kind = "map"
    /\ Get(task["t2"].result.body, "Status") = "confirmed"

\* C4: check_payment returns True if and only if the GetState response says
\* CONFIRMED, whatever the read of pay_notify and the notifier do afterwards.
C4_TrueIffConfirmed ==
    \A t \in Tasks :
        Returned(task[t], "check") =>
            (ReturnedBool(task[t], TRUE) <=> Confirmed(task[t]))

\* C5: create_payment returns either both payment_id and payment_url or
\* (None, None), and a value only if an Init response with a truthy Success
\* arrived.
C5_NoPartialResult ==
    \A t \in Tasks :
        LET rec == task[t]
        IN Returned(rec, "create") =>
              /\ rec.ret.kind = "pair"
              /\ (rec.ret.id = NoneVal) <=> (rec.ret.url = NoneVal)
              /\ (rec.ret.id # NoneVal \/ rec.ret.url # NoneVal) =>
                    /\ rec.result.kind = "map"
                    /\ Truthy(Get(rec.result.body, "Success"))

\* the target read from the store is 0, or there is none (no row, or NULL)
TargetDisabled(notify) ==
    notify.kind \in {"norow", "null"} \/ (notify.kind = "int" /\ notify.val = 0)

\* C6: with a notification target of 0 or none, check_payment on a CONFIRMED
\* payment returns True without calling the notifier; the notifier is called
\* only for a CONFIRMED payment with a non-zero target, and at most once.
C6_DisabledTargetSkipsNotifier ==
    \A t \in Tasks :
        LET rec == task[t]
        IN /\ (Returned(rec, "check") /\ Confirmed(rec) /\ TargetDisabled(rec.notify))
                 => (ReturnedBool(rec, TRUE) /\ rec.notified = 0)
           /\ rec.notified > 0 =>
                 (Confirmed(rec) /\ rec.notify.kind = "int" /\ rec.notify.val # 0)
           /\ rec.notified <= 1

\* C7: when the payment is CONFIRMED and the target is non-zero, a
\* send_message that raises, or a missing bot, leaves the result True.
C7_FailedDeliveryKeepsTrue ==
    \A t \in Tasks :
        LET rec == task[t]
        IN (/\ Returned(rec, "check") /\ Confirmed(rec)
            /\ rec.notify.kind = "int" /\ rec.notify.val # 0
            /\ rec.sendRes \in {"raise", "no_bot"})
              => ReturnedBool(rec, TRUE)

C7_Witness ==
    /\ Returned(task["t1"], "check") /\ task["t1"].sendRes = "raise"
    /\ task["t1"].notified = 1 /\ task["t1"].notify.val # 0
    /\ Returned(task["t2"], "check") /\ task["t2"].sendRes = "no_bot"
    /\ task["t2"].notify.kind = "int"

\* the hash input the claim describes for a body: the values, in key order,
\* of the body without its Token and with the password added
TokenInput(body, pwd) ==
    LET fields == [k \in (DOMAIN body \ {"Token"}) \cup {"Password"} |->
                      IF k = "Password" THEN VStr(pwd) ELSE body[k]]
    IN JoinValues(SortedKeys(fields), fields)

\* C8: the JSON body of every request holds TerminalKey and Token and no
\* Password; the Token is the hash of the key-sorted values of the payload
\* together with the cached password; the fields the caller put into the
\* payload are transmitted unchanged.
C8_PasswordSignedNotSent ==
    \A t \in Tasks :
        LET rec == task[t]
        IN rec.pc = "http" =>
              /\ DOMAIN rec.req = DOMAIN rec.data \cup {"TerminalKey", "Token"}
              /\ "Password" \notin DOMAIN rec.req
              /\ \A k \in DOMAIN rec.data : rec.req[k] = rec.data[k]
              /\ rec.req["TerminalKey"] = VStr(rec.keyUsed)
              /\ rec.req["Token"] = VStr(Sha256Hex(TokenInput(rec.req, rec.pwdUsed)))
              /\ rec.op = "check" =>
                    rec.req["Token"].s =
                        "sha256(" \o rec.pwdUsed \o rec.data["PaymentId"].s
                                  \o rec.keyUsed \o ")"

C8_Witness ==
    /\ task["t1"].pc = "http" /\ task["t1"].op = "check"
    /\ task["t1"].req["Token"].s = "sha256(pw1pid1tk1)"
    /\ task["t2"].pc = "http" /\ task["t2"].op = "create"
    /\ task["t2"].req["Token"].s =
          "sha256(100042{'telegram_id': '42', 'username': 'unknown', 'tariff_name': 'vip'}X"
          \o "https://t.me/BURYAT_VPN_BOThttps://your-server.com/tbank/callbacko1pw1"
          \o "https://t.me/BURYAT_VPN_BOTtk1)"

\* C9 as claimed: an init_tbank() that fails for want of a row or of a
\* credential returns False and leaves the client uninitialised, whatever
\* happened before; one that succeeds leaves it initialised with the stored
\* credentials cached.
C9_FailedInitLeavesUninitialized ==
    \A t \in Tasks :
        LET rec == task[t]
        IN /\ InitUnconfigured(rec) =>
                 /\ ~rec.after.is_initialized
                 /\ Returned(rec, "init") => ReturnedBool(rec, FALSE)
           /\ rec.initOk =>
                 /\ rec.after = [is_initialized |-> TRUE,
                                 terminal_key |-> rec.settings.key,
                                 password |-> rec.settings.pwd]
                 /\ Returned(rec, "init") => ReturnedBool(rec, TRUE)

\* C9, amended: such a failing init_tbank() returns False and leaves
\* is_initialized, terminal_key and password as they were (uninitialised if no
\* init_tbank() had succeeded, still initialised with the old credentials
\* otherwise); one that succeeds leaves the client initialised with the
\* stored credentials cached.
C9_FailedInitKeepsCache ==
    \A t \in Tasks :
        LET rec == task[t]
        IN /\ InitUnconfigured(rec) =>
                 /\ rec.after = rec.before
                 /\ Returned(rec, "init") => ReturnedBool(rec, FALSE)
           /\ rec.initOk =>
                 /\ rec.after = [is_initialized |-> TRUE,
                                 terminal_key |-> rec.settings.key,
                                 password |-> rec.settings.pwd]
                 /\ Returned(rec, "init") => ReturnedBool(rec, TRUE)

C9_Witness ==
    /\ Returned(task["t1"], "init") /\ InitUnconfigured(task["t1"])
    /\ task["t1"].settings.kind = "norow"
    /\ task["t1"].before.is_initialized /\ task["t1"].after.is_initialized
    /\ Returned(task["t2"], "init") /\ task["t2"].initOk
    /\ task["t2"].before.is_initialized
    /\ task["t2"].before.terminal_key # task["t2"].after.terminal_key

\* C10: under every interleaving, a request that is sent carries a non-empty
\* terminal key and a Token made from a non-empty password, both cached by
\* one and the same init_tbank() run.
C10_SentWithOneInitsCredentials ==
    \A t \in Tasks :
        LET rec == task[t]
        IN rec.pc = "http" =>
              /\ rec.posts = 1
              /\ ~Falsy(rec.keyUsed) /\ ~Falsy(rec.pwdUsed)
              /\ rec.req["TerminalKey"] = VStr(rec.keyUsed)
              /\ rec.req["Token"] = VStr(Sha256Hex(TokenInput(rec.req, rec.pwdUsed)))
              /\ rec.keyTag >= 1
              /\ rec.keyTag = rec.pwdTag

\* two requests in flight, signed with the credentials of different runs
C10_Witness ==
    /\ task["t1"].pc = "http" /\ task["t2"].pc = "http"
    /\ task["t1"].keyTag # task["t2"].keyTag
    /\ task["t1"].keyUsed # task["t2"].keyUsed
    /\ task["t1"].settings.kind = "row" /\ task["t2"].settings.kind = "row"

=============================================================================
